---- MODULE Spec2Model ----
(***************************************************************************)
(* fastroute (src/router.go): path-pattern routing with pooled parameter   *)
(* carriers smuggled through http.Request.Body.                            *)
(*                                                                         *)
(* Go strings are modelled as sequences of one-character strings, so that  *)
(* slicing, prefix comparison and indexing are computed as the code        *)
(* computes them.  Go indices are 0-based; the helpers below take and      *)
(* return 0-based indices like their Go counterparts.                      *)
(***************************************************************************)
EXTENDS Integers, Sequences, FiniteSets, TLC

(***************************************************************************)
(* Go string helpers (package strings, slicing, indexing).                 *)
(***************************************************************************)

\* s[lo:hi]
Slice(s, lo, hi) == SubSeq(s, lo + 1, hi)

\* s[lo:]
SliceFrom(s, lo) == SubSeq(s, lo + 1, Len(s))

\* s[i]
At(s, i) == s[i + 1]

Min(S) == CHOOSE x \in S : \A y \in S : x <= y

\* strings.IndexAny(s, chars): index of the first character of s that is in
\* chars, or -1.
IndexAny(s, chars) ==
    LET hits == {i \in 1..Len(s) : s[i] \in chars}
    IN  IF hits = {} THEN -1 ELSE Min(hits) - 1

\* strings.Count(s, c) for a one-character c.
Count(s, c) == Cardinality({i \in 1..Len(s) : s[i] = c})

\* strings.TrimLeft(s, "/")
RECURSIVE TrimLeft(_, _)
TrimLeft(s, c) ==
    IF s # <<>> /\ Head(s) = c THEN TrimLeft(Tail(s), c) ELSE s

\* strings.TrimRight(s, "/")
RECURSIVE TrimRight(_, _)
TrimRight(s, c) ==
    IF s # <<>> /\ s[Len(s)] = c THEN TrimRight(SubSeq(s, 1, Len(s) - 1), c) ELSE s

\* strings.Trim(s, "/")
Trim(s, c) == TrimRight(TrimLeft(s, c), c)

\* strings.Split(s, sep) for a one-character sep: always at least one piece.
RECURSIVE Split(_, _)
Split(s, sep) ==
    LET hits == {i \in 1..Len(s) : s[i] = sep}
    IN  IF hits = {} THEN <<s>>
        ELSE LET i == Min(hits)
             IN  <<SubSeq(s, 1, i - 1)>> \o Split(SubSeq(s, i + 1, Len(s)), sep)

(***************************************************************************)
(* Params: the slice p.params.  s is the visible part (len(s) = Len(s)),   *)
(* cap the capacity of the backing array fixed by make(Params, 0, num),    *)
(* arr the backing array itself: s is always its first Len(s) elements,    *)
(* the elements behind them are what earlier walks left there.             *)
(***************************************************************************)

\* The zero value of struct{ Key, Value string }.
ZeroPair == [Key |-> <<>>, Value |-> <<>>]

MakeParams(num) == [s |-> <<>>, cap |-> num, arr |-> [i \in 1..num |-> ZeroPair]]

\* var emptyParams = make(Params, 0, 0)
emptyParams == MakeParams(0)

\* p.params[0:0]: the same backing array, nothing visible.
Reslice0(ps) == [ps EXCEPT !.s = <<>>]

\* *ps = (*ps)[:n+1] (lines 313, 323) for n + 1 <= cap: one more element of
\* the backing array becomes visible, with the value it has.
Reslice(ps, n) == [ps EXCEPT !.s = SubSeq(ps.arr, 1, n + 1)]

\* (*ps)[n].Key, (*ps)[n].Value = key, value (lines 319, 324): the element
\* n of the backing array is written.
SetPair(ps, n, kv) ==
    [ps EXCEPT !.arr[n + 1] = kv,
               !.s = IF n < Len(ps.s) THEN [ps.s EXCEPT ![n + 1] = kv] ELSE ps.s]

\* ps.ByName(name): the value of the first pair with that key, else "".
ByName(ps, name) ==
    LET hits == {i \in 1..Len(ps.s) : ps.s[i].Key = name}
    IN  IF hits = {} THEN <<>> ELSE ps.s[Min(hits)].Value

(***************************************************************************)
(* The comparison functions.  compareFunc is the process-wide variable.    *)
(***************************************************************************)
VARIABLES
    compareFunc,  \* the process-wide comparison function (line 344), by name
    req,      \* req[q]: the http.Request: Body (the slot) and Path (URL.Path)
    cars,     \* every *parameters allocated so far: ReadCloser, params, pattern, pool
    pool,     \* pool[c]: how many times carrier c sits in its sync.Pool
    th,       \* th[q]: the goroutine working on request q (position, registers, call stack)
    held,     \* held[q]: handlers Match returned to the caller, not yet served or dropped
    att,      \* att[q]: the wrap calls on q not yet undone: carrier and slot value saved
    ops       \* top-level calls started so far

svars == <<req, cars, pool, th, held, att, ops, compareFunc>>

\* A comparison that accepts s1 as a prefix of s2.
prefixCompare(s1, s2) == Len(s1) <= Len(s2) /\ SubSeq(s2, 1, Len(s1)) = s1

\* func caseSensitiveCompare(s1, s2 string) bool { return s1 == s2 }
caseSensitiveCompare(s1, s2) == s1 = s2

\* strings.EqualFold, a cmp that callers hand to ComparesPathWith (line 294),
\* over the letters in use.
FoldChar(c) == IF c = "A" THEN "a" ELSE IF c = "B" THEN "b" ELSE IF c = "C" THEN "c" ELSE c
equalFold(s1, s2) ==
    Len(s1) = Len(s2) /\ \A i \in 1..Len(s1) : FoldChar(s1[i]) = FoldChar(s2[i])

\* The call of the comparison function named cf.
Compare(cf, s1, s2) ==
    IF cf = "caseSensitiveCompare" THEN caseSensitiveCompare(s1, s2)
    ELSE IF cf = "equalFold" THEN equalFold(s1, s2)
    ELSE FALSE

\* The call compareFunc(s1, s2) through the process-wide variable.
CallCompareFunc(s1, s2) == Compare(compareFunc, s1, s2)

(***************************************************************************)
(* match (src/router.go 307-335).  The result records the boolean, the     *)
(* Params as the walk left them (match writes through the pointer also on  *)
(* a failed walk) and whether the walk aborted with a runtime panic        *)
(* (seg[1] on a one-character segment, or a reslice past the capacity).    *)
(* cf is the value of compareFunc during the walk.                         *)
(***************************************************************************)

\* The end of a named capture: for end < lu && url[end] != '/' { end++ }
RECURSIVE ScanEnd(_, _)
ScanEnd(url, end) ==
    IF end < Len(url) /\ At(url, end) # "/" THEN ScanEnd(url, end + 1) ELSE end

\* A final test that takes a trailing slash or none, whatever the flag.
TrailingOkLenient(url, ts) == url = <<>> \/ url = <<"/">>

\* The final test of the walk: (!ts && url == "") || (ts && url == "/")
TrailingOk(url, ts) == (~ts /\ url = <<>>) \/ (ts /\ url = <<"/">>)

\* The value a catch-all segment binds: (*ps)[n].Value = url
CatchAllValue(url) == url

\* A catch-all that falls through to the trailing-slash test.
CatchAllOkTrailing(url, ts) == TrailingOk(url, ts)

\* Whether the walk succeeds at a catch-all segment: return true
CatchAllOk(url, ts) == TRUE

MatchResult(ok, ps, fault) == [ok |-> ok, ps |-> ps, fault |-> fault]

RECURSIVE matchFrom(_, _, _, _, _, _)
matchFrom(cf, segments, k, url, ps, ts) ==
    IF k > Len(segments) THEN MatchResult(TrailingOk(url, ts), ps, FALSE)
    ELSE
    LET seg == segments[k]
        lu  == Len(url)
        n   == Len(ps.s)
    IN  IF lu = 0 THEN MatchResult(FALSE, ps, FALSE)
        ELSE IF Len(seg) < 2 THEN MatchResult(FALSE, ps, TRUE)      \* seg[1]: index out of range
        ELSE IF At(seg, 1) = ":" THEN
            IF n + 1 > ps.cap THEN MatchResult(FALSE, ps, TRUE)     \* (*ps)[:n+1]: out of range
            ELSE LET end == ScanEnd(url, 1)
                     kv  == [Key |-> SliceFrom(seg, 2), Value |-> Slice(url, 1, end)]
                 IN  matchFrom(cf, segments, k + 1, SliceFrom(url, end),
                               SetPair(Reslice(ps, n), n, kv), ts)
        ELSE IF At(seg, 1) = "*" THEN
            IF n + 1 > ps.cap THEN MatchResult(FALSE, ps, TRUE)
            ELSE LET kv == [Key |-> SliceFrom(seg, 2), Value |-> CatchAllValue(url)]
                 IN  MatchResult(CatchAllOk(url, ts), SetPair(Reslice(ps, n), n, kv), FALSE)
        ELSE IF lu < Len(seg) THEN MatchResult(FALSE, ps, FALSE)
        ELSE IF Compare(cf, Slice(url, 0, Len(seg)), seg)
             THEN matchFrom(cf, segments, k + 1, SliceFrom(url, Len(seg)), ps, ts)
        ELSE MatchResult(FALSE, ps, FALSE)

matchWith(cf, segments, url, ps, ts) == matchFrom(cf, segments, 1, url, ps, ts)

match(segments, url, ps, ts) == matchWith(compareFunc, segments, url, ps, ts)

\* The same walk statement by statement, for a goroutine whose carrier
\* other goroutines may write in between.  WalkTo is the walk from segment
\* k with url left to match, as far as it goes without an access to *ps:
\* at "param" segment k is a parameter segment and lines 312-313 (322-323)
\* are next; at "end" match returns ok; at "fault" seg[1] is out of range.
WalkAt(at, ok, k, url) == [at |-> at, ok |-> ok, k |-> k, url |-> url]

RECURSIVE WalkTo(_, _, _, _, _)
WalkTo(cf, segments, k, url, ts) ==
    IF k > Len(segments) THEN WalkAt("end", TrailingOk(url, ts), k, url)
    ELSE
    LET seg == segments[k]
        lu  == Len(url)
    IN  IF lu = 0 THEN WalkAt("end", FALSE, k, url)
        ELSE IF Len(seg) < 2 THEN WalkAt("fault", FALSE, k, url)
        ELSE IF At(seg, 1) \in {":", "*"} THEN WalkAt("param", FALSE, k, url)
        ELSE IF lu < Len(seg) THEN WalkAt("end", FALSE, k, url)
        ELSE IF Compare(cf, Slice(url, 0, Len(seg)), seg)
             THEN WalkTo(cf, segments, k + 1, SliceFrom(url, Len(seg)), ts)
        ELSE WalkAt("end", FALSE, k, url)

\* The pair that the parameter segment seg binds with url left to match
\* (lines 314-319 and 324).
BoundPair(seg, url) ==
    [Key   |-> SliceFrom(seg, 2),
     Value |-> IF At(seg, 1) = ":" THEN Slice(url, 1, ScanEnd(url, 1))
               ELSE CatchAllValue(url)]

\* The walk after the parameter segment k has bound its pair: a named
\* segment goes on behind the capture (line 320), a catch-all returns
\* (line 325).
WalkOn(cf, segments, k, url, ts) ==
    IF At(segments[k], 1) = ":"
    THEN WalkTo(cf, segments, k + 1, SliceFrom(url, ScanEnd(url, 1)), ts)
    ELSE WalkAt("end", CatchAllOk(url, ts), k, url)

(***************************************************************************)
(* Route (src/router.go 218-287), the registration part: normalisation,    *)
(* static/dynamic classification, segment validation, trailing-slash flag  *)
(* and parameter capacity.  panic is "" when the pattern is accepted.      *)
(***************************************************************************)

\* A normalisation that only adds the slash when it is missing.
NormalizeAddsSlash(path) ==
    IF path # <<>> /\ Head(path) = "/" THEN path ELSE <<"/">> \o path

\* p := "/" + strings.TrimLeft(path, "/")
Normalize(path) == <<"/">> \o TrimLeft(path, "/")

Markers == {":", "*"}

\* strings.IndexAny(p, ":*") == -1
IsStatic(p) == IndexAny(p, Markers) = -1

\* A validation that lets a catch-all stand in front of other segments.
SegmentPanicNoLastCheck(seg, i, nsegs) ==
    LET pos == IndexAny(seg, Markers)
    IN  IF pos = -1 THEN ""
        ELSE IF pos # 0 THEN "must follow after slash"
        ELSE IF Len(seg) - 1 = pos THEN "must be named"
        ELSE IF IndexAny(SliceFrom(seg, 1), Markers) # -1 THEN "only one param per segment"
        ELSE ""

\* The validation of one segment (lines 246-258); "" when it passes.
SegmentPanic(seg, i, nsegs) ==
    LET pos == IndexAny(seg, Markers)
    IN  IF pos = -1 THEN ""
        ELSE IF pos # 0 THEN "must follow after slash"
        ELSE IF Len(seg) - 1 = pos THEN "must be named"
        ELSE IF At(seg, 0) = "*" /\ i + 1 # nsegs THEN "must be the last segment"
        ELSE IF IndexAny(SliceFrom(seg, 1), Markers) # -1 THEN "only one param per segment"
        ELSE ""

\* segments := strings.Split(strings.Trim(p, "/"), "/")
RawSegments(p) == Split(Trim(p, "/"), "/")

\* The first panic of the validation loop, in segment order.
RoutePanic(p) ==
    LET segs == RawSegments(p)
        bad  == {i \in 1..Len(segs) : SegmentPanic(segs[i], i - 1, Len(segs)) # ""}
    IN  IF IsStatic(p) \/ bad = {} THEN ""
        ELSE SegmentPanic(segs[Min(bad)], Min(bad) - 1, Len(segs))

\* segments[i] = "/" + seg
Segments(p) ==
    LET segs == RawSegments(p)
    IN  [i \in 1..Len(segs) |-> <<"/">> \o segs[i]]

\* ts := p[len(p)-1] == '/'
TrailingSlash(p) == At(p, Len(p) - 1) = "/"

\* num := strings.Count(p, ":") + strings.Count(p, "*")
NumParams(p) == Count(p, ":") + Count(p, "*")

\* The Router that Route(path, handler) returns, as data.
Route(path) ==
    LET p == Normalize(path)
    IN  [pattern  |-> p,
         static   |-> IsStatic(p),
         panic    |-> RoutePanic(p),
         segments |-> IF IsStatic(p) THEN <<>> ELSE Segments(p),
         ts       |-> TrailingSlash(p),
         num      |-> NumParams(p)]

(***************************************************************************)
(* The matcher on its own: one Route is registered with a pattern drawn    *)
(* from PatternInputs and asked to match one request path drawn from       *)
(* PathInputs, with a carrier fresh from pool.New.                         *)
(***************************************************************************)

\* A Go string literal as a sequence of characters.
Str(s) == [i \in 1..Len(s) |-> SubSeq(s, i, i)]

MaxPatLen == 4
MaxUrlLen == 4

PatternAlphabet == {"/", "a", ":", "*"}
PathAlphabet == {"/", "a", "b"}

SeqsUpTo(alphabet, n) == UNION {[1..k -> alphabet] : k \in 0..n}

\* The patterns of the package documentation and of router_test.go, one
\* with an empty segment between two separators, and a literal segment
\* followed by a named parameter.  DocPaths has the paths asked of them,
\* among them paths in which a literal is the prefix of a longer segment.
DocPatterns ==
    { Str("/blog/:category/:post"), Str("/files/*filepath"),
      Str("/category/:cid/product/*rest"), Str("/a/:b/c"),
      Str("/users/:id/:bid/"), Str("/users/hello"), Str("/a//:b"),
      Str("/files/*filepath/"), Str("/a/:b") }

DocPaths ==
    { Str("/blog/go/request-routers"), Str("/blog/go/request-routers/"),
      Str("/blog/go/"), Str("/blog/go/request-routers/comments"),
      Str("/files/"), Str("/files/LICENSE"), Str("/files/a/b"), Str("/files"),
      Str("/files/templates/article.html"),
      Str("/category/5/product/x/a/bc"),
      Str("/a/dic/c"), Str("/a/c"), Str("/a/c/c"), Str("/a/c/b"), Str("/a/c/c/"),
      Str("/users/a/b/"), Str("/users/hello"), Str("/user/hello"),
      Str("/users/hello/"), Str("/a/x"), Str("/a//x"),
      Str("/abc"), Str("/ab"), Str("/filesX") }

\* Paths around the pattern /a/:b/c of router_test.go: /a/X/c, /a/X/c/ and
\* /a/X/b for short X, with and without a separator in X.
NamedPaths ==
    { Str("/a/") \o x \o tail : x \in SeqsUpTo({"a", "c", "/"}, 2),
                                tail \in {Str("/c"), Str("/c/"), Str("/b")} }

PatternInputs == DocPatterns \cup SeqsUpTo(PatternAlphabet, MaxPatLen)
PathInputs == DocPaths \cup NamedPaths \cup SeqsUpTo(PathAlphabet, MaxUrlLen)

VARIABLES
    regPath,    \* the path given to Route
    reqPath,    \* r.URL.Path of the request
    router,     \* the Router that Route returned (once registered)
    result,     \* what Match did: handler or nil, the carrier's Params, a panic,
                \* the request's slot and the carriers resting in the pool
    mpc         \* "new" -> "registered" | "panicked" ; "registered" -> "matched"

mvars == <<regPath, reqPath, router, result, mpc>>

NoRouter == Route(<<>>)
\* The body of the RouterFunc that Route returns (lines 234-240 and
\* 278-286), as far as the path decides it: static routes compare the whole
\* path, dynamic routes walk the segments with the drawn carrier's Params.
\* cf is the value of compareFunc during the call.
RouteMatchWith(cf, rt, url, ps) ==
    IF rt.static
    THEN MatchResult(Compare(cf, rt.pattern, url), emptyParams, FALSE)
    ELSE matchWith(cf, rt.segments, url, ps, rt.ts)

RouteMatch(rt, url, ps) == RouteMatchWith(compareFunc, rt, url, ps)

\* What the call leaves behind: the answer, the carrier's Params, the
\* request's slot ("body": the original body, "car": the carrier, "nil":
\* the ReadCloser of a carrier fresh from pool.New) and the number of
\* carriers resting in the pool.
Outcome(m, ps, slot, resting) ==
    [ok |-> m.ok, ps |-> ps, fault |-> m.fault, slot |-> slot, resting |-> resting]

NoResult == Outcome(MatchResult(FALSE, emptyParams, FALSE), emptyParams, "body", 0)

\* The whole RouterFunc of Route on an untouched request with an empty
\* pool.  Static (234-240): the carrier is attached on a match.  Dynamic
\* (278-286): the carrier from pool.New is attached on a match; on a failed
\* walk p.reset(r) truncates it, Puts it and stores its nil ReadCloser in
\* the slot; a panic in match leaves the carrier drawn and the slot alone.
RouteOutcome(rt, url) ==
    LET m == RouteMatch(rt, url, MakeParams(rt.num))
    IN  IF m.fault THEN Outcome(m, m.ps, "body", 0)
        ELSE IF m.ok THEN Outcome(m, m.ps, "car", 0)
        ELSE IF rt.static THEN Outcome(m, m.ps, "body", 0)
        ELSE Outcome(m, Reslice0(m.ps), "nil", 1)

MInit ==
    /\ regPath \in PatternInputs
    /\ reqPath \in PathInputs
    /\ router = NoRouter
    /\ result = NoResult
    /\ mpc = "new"

\* Route(regPath, handler): returns the Router or panics.
Register ==
    /\ mpc = "new"
    /\ router' = Route(regPath)
    /\ mpc' = IF Route(regPath).panic = "" THEN "registered" ELSE "panicked"
    /\ UNCHANGED <<regPath, reqPath, result>>
    /\ UNCHANGED svars

\* router.Match(req) on an untouched request with an empty pool.
MatchRequest ==
    /\ mpc = "registered"
    /\ result' = RouteOutcome(router, reqPath)
    /\ mpc' = "matched"
    /\ UNCHANGED <<regPath, reqPath, router>>
    /\ UNCHANGED svars

\* Pattern(req) (lines 95-100) for the request of the last MatchRequest: the
\* pattern field of the carrier in the slot (set at line 233 or 266), or ""
\* when Match returned nil and no carrier is attached.
MatchedPattern == IF mpc = "matched" /\ result.slot = "car" THEN router.pattern ELSE <<>>

MNext == Register \/ MatchRequest

(***************************************************************************)
(* The dispatch system: routers built once (Route, New), requests that are *)
(* matched, served and recycled by concurrent goroutines, one per request. *)
(* A step of a goroutine is one access to shared state (a pool, a carrier, *)
(* compareFunc) together with the goroutine-local control flow up to the   *)
(* next such access.                                                       *)
(***************************************************************************)

MaxOps == 3     \* top-level calls (Match, ServeHTTP, a held handler, Recycle) in a run
NReqs == 2      \* requests in flight

Reqs == 1..NReqs

\* The routers of the program under analysis:
\*   1: Route("/a/:b", h1)   2: Route("/a/b", h2)
\*   3: New(2, 1)            4: New(3, 1)
\*   5: ComparesPathWith(2, strings.EqualFold)
\*   6: New(5, 1)            7: ComparesPathWith(6, strings.EqualFold)
Routers ==
    << [t |-> "route", path |-> Str("/a/:b"), subs |-> <<>>,     cmp |-> ""],
       [t |-> "route", path |-> Str("/a/b"),  subs |-> <<>>,     cmp |-> ""],
       [t |-> "new",   path |-> <<>>,         subs |-> <<2, 1>>, cmp |-> ""],
       [t |-> "new",   path |-> <<>>,         subs |-> <<3, 1>>, cmp |-> ""],
       [t |-> "cmp",   path |-> <<>>,         subs |-> <<2>>,    cmp |-> "equalFold"],
       [t |-> "new",   path |-> <<>>,         subs |-> <<5, 1>>, cmp |-> ""],
       [t |-> "cmp",   path |-> <<>>,         subs |-> <<6>>,    cmp |-> "equalFold"] >>

RouterIds == 1..Len(Routers)
Leaves == {r \in RouterIds : Routers[r].t = "route"}
LeafTable == [r \in Leaves |-> Route(Routers[r].path)]
Leaf(r) == LeafTable[r]
StaticLeaves == {r \in Leaves : Leaf(r).static}

\* The routers callers use directly.
Tops == {1, 2, 4}

\* The request paths of the analysis.
ReqPaths == <<Str("/a/b"), Str("/a/c"), Str("/c")>>

\* Values of the slot req.Body: nil, the request's own body, or a carrier
\* (*parameters) identified by its index in cars.
NilV == [k |-> "nil", id |-> 0]
BodyV(q) == [k |-> "body", id |-> q]
CarV(c) == [k |-> "car", id |-> c]

vars == <<svars, mvars>>

\* The one carrier of static leaf r: ps := &parameters{params: emptyParams, pattern: p}
StaticCar(r) == Cardinality({s \in StaticLeaves : s <= r})

NewStaticCarrier(r) ==
    [rc |-> NilV, params |-> emptyParams, pattern |-> Leaf(r).pattern, pool |-> 0]

\* pool.New: &parameters{params: make(Params, 0, num), pool: &pool, pattern: p}
NewCarrier(r) ==
    [rc |-> NilV, params |-> MakeParams(Leaf(r).num), pattern |-> Leaf(r).pattern, pool |-> r]

\* parameterized(req): the carrier in the slot, or 0 for nil.
parameterized(bodyv) == IF bodyv.k = "car" THEN bodyv.id ELSE 0

\* Pattern(req)
Pattern(q) ==
    IF parameterized(req[q].Body) # 0 THEN cars[parameterized(req[q].Body)].pattern ELSE <<>>

\* Parameters(req)
Parameters(q) ==
    IF parameterized(req[q].Body) # 0 THEN cars[parameterized(req[q].Body)].params
    ELSE emptyParams

\* p.wrap(req), the carrier's side: p.ReadCloser = req.Body
wrap(car, bodyv) == [car EXCEPT !.rc = bodyv]

\* p.reset(req), the carrier's side: p.params = p.params[0:0]
Truncate(car) == [car EXCEPT !.params = Reslice0(@)]

\* A loop of New without the break.
NewNeverBreaks(found, i, n) == i < n

\* The loop of New: after i routers were asked and the last returned found
\* (0 for nil), ask the next one?
NewContinues(found, i, n) == i < n /\ (i = 0 \/ found = 0)

\* The control flow of nested routers (New, lines 192-200, and
\* ComparesPathWith, lines 299-304) over the call stack of frames
\* [r: router, i: routers of r asked so far]:
\*   Call:   the top frame's router has just been called;
\*   Loop:   the top frame is a New whose i-th router returned fnd;
\*   Unwind: the top frame returns fnd to its caller.
\* Each ends at the goroutine's next access to shared state (done = FALSE):
\* at "match" the Route on top is asked next, at "setcmp" the
\* ComparesPathWith on top assigns compareFunc = cmp next, at "resetcmp" the
\* one on top assigns compareFunc = caseSensitiveCompare next; or with the
\* outermost result (done = TRUE).
RECURSIVE Call(_), Loop(_, _), Unwind(_, _)
Call(stack) ==
    IF Routers[stack[Len(stack)].r].t = "route"
    THEN [stack |-> stack, found |-> 0, done |-> FALSE, at |-> "match"]
    ELSE IF Routers[stack[Len(stack)].r].t = "cmp"
    THEN [stack |-> stack, found |-> 0, done |-> FALSE, at |-> "setcmp"]
    ELSE Loop(stack, 0)

Loop(stack, fnd) ==
    LET n == Len(stack)
        f == stack[n]
        subs == Routers[f.r].subs
    IN  IF NewContinues(fnd, f.i, Len(subs))
        THEN Call(Append([stack EXCEPT ![n].i = f.i + 1], [r |-> subs[f.i + 1], i |-> 0]))
        ELSE Unwind(stack, fnd)

Unwind(stack, fnd) ==
    LET rest == SubSeq(stack, 1, Len(stack) - 1)
    IN  IF rest = <<>> THEN [stack |-> <<>>, found |-> fnd, done |-> TRUE, at |-> "idle"]
        ELSE IF Routers[rest[Len(rest)].r].t = "cmp"
        THEN [stack |-> rest, found |-> fnd, done |-> FALSE, at |-> "resetcmp"]
        ELSE Loop(rest, fnd)

\* The locals of match while no walk is in progress.
NoWalk == [k |-> 0, url |-> <<>>, n |-> 0]

Idle == [pc |-> "idle", op |-> "none", r |-> 0, h |-> 0, found |-> 0, p |-> 0,
         exp |-> NilV, hasExp |-> FALSE, cont |-> "none", stack |-> <<>>,
         walk |-> NoWalk]

\* Requests are interchangeable: their paths are drawn in list order.
PathChoices ==
    {pi \in [Reqs -> 1..Len(ReqPaths)] : \A q1, q2 \in Reqs : q1 < q2 => pi[q1] <= pi[q2]}

\* The system at rest with request q asking for path paths[pi[q]].
SInitFrom(paths, pi) ==
    /\ req = [q \in Reqs |-> [Body |-> BodyV(q), Path |-> paths[pi[q]]]]
    /\ cars = [c \in 1..Cardinality(StaticLeaves) |->
                 NewStaticCarrier(CHOOSE r \in StaticLeaves : StaticCar(r) = c)]
    /\ pool = [c \in 1..Cardinality(StaticLeaves) |-> 0]
    /\ th = [q \in Reqs |-> Idle]
    /\ held = [q \in Reqs |-> <<>>]
    /\ att = [q \in Reqs |-> <<>>]
    /\ ops = 0
    /\ compareFunc = "caseSensitiveCompare"

SInitWith(pi) == SInitFrom(ReqPaths, pi)

SInit == \E pi \in PathChoices : SInitWith(pi)

RemoveAt(s, i) == SubSeq(s, 1, i - 1) \o SubSeq(s, i + 1, Len(s))

\* The last entry of the wrap history a for carrier c (0 when there is none).
LastAtt(a, c) ==
    LET hits == {i \in 1..Len(a) : a[i].c = c}
    IN  IF hits = {} THEN 0 ELSE CHOOSE i \in hits : \A j \in hits : j <= i

\* The goroutine t after control flow w (of Call or Unwind).  When the
\* outermost Match has returned, RouterFunc.ServeHTTP (lines 176-182) goes
\* on to serve the handler or to answer NotFound; a plain Match has
\* returned to its caller.
Continue(t, w) ==
    IF w.done /\ t.op = "match" THEN Idle
    ELSE [t EXCEPT !.stack = w.stack, !.found = w.found,
                   !.p = 0, !.exp = NilV, !.hasExp = FALSE, !.cont = "none",
                   !.walk = NoWalk,
                   !.h = IF w.done THEN w.found ELSE 0,
                   !.pc = IF ~w.done THEN w.at
                          ELSE IF w.found # 0 THEN "handler" ELSE "notfound"]

\* The handlers the caller of request q holds after control flow w of
\* goroutine t: a plain Match that returned a handler hands it to the caller.
Hold(q, t, w) ==
    IF w.done /\ t.op = "match" /\ w.found # 0
    THEN [held EXCEPT ![q] = Append(@, w.found)]
    ELSE held

\* The goroutine t on its way to pc next, its reset registers cleared; at
\* "idle" the call has returned.
Goto(t, next) ==
    IF next = "idle" THEN Idle
    ELSE [t EXCEPT !.pc = next, !.r = 0, !.p = 0, !.exp = NilV, !.hasExp = FALSE,
                   !.cont = "none"]

TopOf(t) == t.stack[Len(t.stack)]

\* The RouterFunc of a static route (lines 234-240), run by the goroutine
\* with record t.
StaticRouteMatch(q, t) ==
    LET r == TopOf(t).r
        c == StaticCar(r)
    IN  /\ IF CallCompareFunc(Leaf(r).pattern, req[q].Path)
           THEN /\ cars' = [cars EXCEPT ![c] = wrap(@, req[q].Body)]
                /\ req' = [req EXCEPT ![q].Body = CarV(c)]
                /\ att' = [att EXCEPT ![q] = Append(@, [c |-> c, v |-> req[q].Body])]
                /\ th' = [th EXCEPT ![q] = Continue(t, Unwind(t.stack, r))]
                /\ held' = Hold(q, t, Unwind(t.stack, r))
           ELSE /\ th' = [th EXCEPT ![q] = Continue(t, Unwind(t.stack, 0))]
                /\ UNCHANGED <<cars, req, att, held>>
        /\ UNCHANGED pool

\* What pool.Get of leaf r may return: a carrier resting in the pool, or
\* (0) a new one from pool.New; sync.Pool may treat the pool as empty
\* although carriers rest in it.
GetChoices(r) ==
    {0} \cup {c \in 1..Len(cars) : cars[c].pool = r /\ pool[c] > 0}

\* The goroutine t with the carrier c drawn and its walk at w (of WalkTo
\* or WalkOn): at a parameter segment line 312 (322) is next, after a match
\* wrap, after a failure p.reset(r); a panic unwinds the goroutine with the
\* carrier still drawn.
Walked(t, c, w) ==
    IF w.at = "fault" THEN [t EXCEPT !.pc = "panicked", !.p = 0, !.walk = NoWalk]
    ELSE IF w.at = "param"
    THEN [t EXCEPT !.pc = "len", !.p = c, !.walk = [k |-> w.k, url |-> w.url, n |-> 0]]
    ELSE IF w.ok THEN [t EXCEPT !.pc = "wrap", !.p = c, !.walk = NoWalk]
    ELSE [t EXCEPT !.pc = "reset", !.p = c, !.cont = "nomatch", !.walk = NoWalk]

\* The RouterFunc of a dynamic route (lines 278-286) begins: pool.Get (line
\* 279) and the walk of match (line 280) as far as it goes on the
\* goroutine's own locals.  The accesses of match to the drawn carrier
\* follow one by one in ReadLen, Grow and Bind, a match ends in Wrap, a
\* failure in ResetUnmatched and Restore: no lock is held in between, and a
\* carrier that a stale ReadCloser has handed to a second owner is written
\* by both.
DynamicRouteMatch(q, t, got) ==
    LET r == TopOf(t).r
        c == IF got = 0 THEN Len(cars) + 1 ELSE got
    IN  /\ cars' = IF got = 0 THEN Append(cars, NewCarrier(r)) ELSE cars
        /\ pool' = IF got = 0 THEN Append(pool, 0) ELSE [pool EXCEPT ![c] = @ - 1]
        /\ th' = [th EXCEPT ![q] =
                    Walked(t, c, WalkTo(compareFunc, Leaf(r).segments, 1,
                                        req[q].Path, Leaf(r).ts))]
        /\ UNCHANGED <<req, att, held>>

\* router.Match(req) of the Route on top of t's call stack; got is what
\* pool.Get returns (0: nothing drawn from a pool's store).
AskRoute(q, t, got) ==
    IF t.pc # "match" THEN got = 0 /\ th' = [th EXCEPT ![q] = t]
                                  /\ UNCHANGED <<req, cars, pool, att, held>>
    ELSE IF Leaf(TopOf(t).r).static THEN got = 0 /\ StaticRouteMatch(q, t)
    ELSE got \in GetChoices(TopOf(t).r) /\ DynamicRouteMatch(q, t, got)

\* The caller invokes router.Match(req) on router r: the call runs up to
\* and including the first Route asked.
MatchWithin(budget, q, r, got) ==
    /\ th[q].pc = "idle" /\ ops < budget
    /\ AskRoute(q, Continue([Idle EXCEPT !.op = "match", !.r = r], Call(<<[r |-> r, i |-> 0]>>)), got)
    /\ ops' = ops + 1
    /\ UNCHANGED compareFunc
    /\ UNCHANGED mvars

Match(q, r, got) == MatchWithin(MaxOps, q, r, got)

\* The caller invokes router.ServeHTTP(w, req) on router r (lines 176-182):
\* the call runs up to and including the first Route asked.
ServeHTTPWithin(budget, q, r, got) ==
    /\ th[q].pc = "idle" /\ ops < budget
    /\ AskRoute(q, Continue([Idle EXCEPT !.op = "servehttp", !.r = r], Call(<<[r |-> r, i |-> 0]>>)), got)
    /\ ops' = ops + 1
    /\ UNCHANGED compareFunc
    /\ UNCHANGED mvars

ServeHTTP(q, r, got) == ServeHTTPWithin(MaxOps, q, r, got)

\* A New in progress asks its next Route.
NextRoute(q, got) ==
    /\ th[q].pc = "match"
    /\ AskRoute(q, th[q], got)
    /\ UNCHANGED <<ops, compareFunc>>
    /\ UNCHANGED mvars

\* ComparesPathWith (line 300): compareFunc = cmp, then router.Match(req) is
\* called.
SetCompare(q) ==
    /\ th[q].pc = "setcmp"
    /\ LET n == Len(th[q].stack)
           f == th[q].stack[n]
           w == Call(Append([th[q].stack EXCEPT ![n].i = 1],
                            [r |-> Routers[f.r].subs[1], i |-> 0]))
       IN  /\ compareFunc' = Routers[f.r].cmp
           /\ th' = [th EXCEPT ![q] = Continue(@, w)]
    /\ UNCHANGED <<req, cars, pool, held, att, ops>>
    /\ UNCHANGED mvars

\* ComparesPathWith (lines 302-303): compareFunc = caseSensitiveCompare, then
\* the handler is returned.
ResetCompare(q) ==
    /\ th[q].pc = "resetcmp"
    /\ compareFunc' = "caseSensitiveCompare"
    /\ LET w == Unwind(th[q].stack, th[q].found)
       IN  /\ th' = [th EXCEPT ![q] = Continue(@, w)]
           /\ held' = Hold(q, th[q], w)
    /\ UNCHANGED <<req, cars, pool, att, ops>>
    /\ UNCHANGED mvars

\* n := len(*ps) (lines 312, 322) at the parameter segment the walk has
\* reached.
ReadLen(q) ==
    /\ th[q].pc = "len"
    /\ th' = [th EXCEPT ![q].pc = "grow",
                        ![q].walk.n = Len(cars[th[q].p].params.s)]
    /\ UNCHANGED <<req, cars, pool, held, att, ops, compareFunc>>
    /\ UNCHANGED mvars

\* *ps = (*ps)[:n+1] (lines 313, 323) with the n read before: past the
\* capacity the reslice panics.
Grow(q) ==
    /\ th[q].pc = "grow"
    /\ LET c == th[q].p
           n == th[q].walk.n
       IN  IF n + 1 > cars[c].params.cap
           THEN /\ th' = [th EXCEPT ![q] = [@ EXCEPT !.pc = "panicked", !.p = 0,
                                                     !.walk = NoWalk]]
                /\ UNCHANGED cars
           ELSE /\ cars' = [cars EXCEPT ![c].params = Reslice(@, n)]
                /\ th' = [th EXCEPT ![q].pc = "bind"]
    /\ UNCHANGED <<req, pool, held, att, ops, compareFunc>>
    /\ UNCHANGED mvars

\* (*ps)[n].Key, (*ps)[n].Value = ... (lines 314-320 and 324-325): the
\* capture is bound and the walk goes on to its next access to the carrier.
\* When another owner of the carrier has truncated it since line 313, n is
\* out of the range that *ps has now, and what the statement does depends
\* on the build: one that reads *ps again panics with index out of range
\* (checked = TRUE), one that kept the slice of line 313 in registers writes
\* the element of the backing array (checked = FALSE).
Bind(q, checked) ==
    /\ th[q].pc = "bind"
    /\ LET t   == th[q]
           c   == t.p
           n   == t.walk.n
           r   == TopOf(t).r
           seg == Leaf(r).segments[t.walk.k]
       IN  IF n >= Len(cars[c].params.s) /\ checked
           THEN /\ th' = [th EXCEPT ![q] = [t EXCEPT !.pc = "panicked", !.p = 0,
                                                     !.walk = NoWalk]]
                /\ UNCHANGED cars
           ELSE /\ (n < Len(cars[c].params.s)) => checked
                /\ cars' = [cars EXCEPT ![c].params =
                              SetPair(@, n, BoundPair(seg, t.walk.url))]
                /\ th' = [th EXCEPT ![q] =
                            Walked(t, c, WalkOn(compareFunc, Leaf(r).segments,
                                                t.walk.k, t.walk.url, Leaf(r).ts))]
    /\ UNCHANGED <<req, pool, held, att, ops, compareFunc>>
    /\ UNCHANGED mvars

\* After a match: p.wrap(r) (lines 281, 354-355) and the return of the
\* wrapper (lines 270-275) as the handler.
Wrap(q) ==
    /\ th[q].pc = "wrap"
    /\ LET t == th[q]
           c == t.p
           w == Unwind(t.stack, TopOf(t).r)
       IN  /\ cars' = [cars EXCEPT ![c] = wrap(@, req[q].Body)]
           /\ req' = [req EXCEPT ![q].Body = CarV(c)]
           /\ att' = [att EXCEPT ![q] = Append(@, [c |-> c, v |-> req[q].Body])]
           /\ th' = [th EXCEPT ![q] = Continue(t, w)]
           /\ held' = Hold(q, t, w)
    /\ UNCHANGED <<pool, ops, compareFunc>>
    /\ UNCHANGED mvars

\* p.reset(req) for p = parameterized(req) (lines 358-364), called with the
\* goroutine record t and the position next to go to afterwards.  A pooled
\* carrier is truncated and Put; its ReadCloser is read back in the step
\* Restore.  A static carrier has no pool: only the slot is restored.
\* Without a carrier in the slot nothing is reset.
Reset(q, t, next) ==
    LET c == parameterized(req[q].Body)
        k == LastAtt(att[q], c)
    IN  IF c = 0
        THEN /\ th' = [th EXCEPT ![q] = Goto(t, next)]
             /\ UNCHANGED <<req, cars, pool, att>>
        ELSE IF cars[c].pool # 0
        THEN /\ cars' = [cars EXCEPT ![c] = Truncate(@)]
             /\ pool' = [pool EXCEPT ![c] = @ + 1]
             /\ th' = [th EXCEPT ![q] =
                         [t EXCEPT !.pc = "restore", !.r = 0, !.p = c, !.cont = next,
                                   !.hasExp = (k # 0),
                                   !.exp = IF k # 0 THEN att[q][k].v ELSE NilV]]
             /\ att' = [att EXCEPT ![q] = IF k # 0 THEN RemoveAt(@, k) ELSE @]
             /\ UNCHANGED req
        ELSE /\ req' = [req EXCEPT ![q].Body = cars[c].rc]
             /\ att' = [att EXCEPT ![q] = IF k # 0 THEN RemoveAt(@, k) ELSE @]
             /\ th' = [th EXCEPT ![q] = Goto(t, next)]
             /\ UNCHANGED <<cars, pool>>

\* p.reset(r) on the failure path of a dynamic route (line 284), for the
\* carrier p that was drawn and not attached: p.params = p.params[0:0] and
\* p.pool.Put(p) (lines 360-361).
ResetUnmatched(q) ==
    /\ th[q].pc = "reset"
    /\ cars' = [cars EXCEPT ![th[q].p] = Truncate(@)]
    /\ pool' = [pool EXCEPT ![th[q].p] = @ + 1]
    /\ th' = [th EXCEPT ![q].pc = "restore"]
    /\ UNCHANGED <<req, held, att, ops, compareFunc>>
    /\ UNCHANGED mvars

\* The last statement of p.reset: req.Body = p.ReadCloser (line 363), and
\* what follows it: the failed Match returns nil, the wrapper or Recycle
\* returns.
Restore(q) ==
    /\ th[q].pc = "restore"
    /\ req' = [req EXCEPT ![q].Body = cars[th[q].p].rc]
    /\ th' = [th EXCEPT ![q] = IF @.cont = "nomatch"
                               THEN Continue(@, Unwind(@.stack, 0))
                               ELSE Goto(@, @.cont)]
    /\ UNCHANGED <<cars, pool, held, att, ops, compareFunc>>
    /\ UNCHANGED mvars

\* The handler of leaf t.h runs.  The bound handler h may call
\* Recycle(req).  For a dynamic route the handler is the wrapper (lines
\* 270-275), which after h resets the carrier it finds in the slot; a
\* static route returned h itself.
Handler(q, t, recycles) ==
    IF recycles
    THEN Reset(q, t, IF Leaf(t.h).static THEN "idle" ELSE "release")
    ELSE IF Leaf(t.h).static
    THEN /\ th' = [th EXCEPT ![q] = Goto(t, "idle")]
         /\ UNCHANGED <<req, cars, pool, att>>
    ELSE Reset(q, t, "idle")

\* RouterFunc.ServeHTTP serves the handler that Match returned (line 178).
RunHandler(q, recycles) ==
    /\ th[q].pc = "handler"
    /\ Handler(q, th[q], recycles)
    /\ UNCHANGED <<held, ops, compareFunc>>
    /\ UNCHANGED mvars

\* The wrapper after an h that called Recycle:
\* if p := parameterized(r); p != nil { p.reset(r) }
Release(q) ==
    /\ th[q].pc = "release"
    /\ Reset(q, th[q], "idle")
    /\ UNCHANGED <<held, ops, compareFunc>>
    /\ UNCHANGED mvars

\* The caller serves a handler that an earlier Match returned.
ServeHeldWithin(budget, q, i, recycles) ==
    /\ th[q].pc = "idle" /\ ops < budget
    /\ i \in 1..Len(held[q])
    /\ Handler(q, [Idle EXCEPT !.op = "serve", !.h = held[q][i]], recycles)
    /\ held' = [held EXCEPT ![q] = RemoveAt(@, i)]
    /\ ops' = ops + 1
    /\ UNCHANGED compareFunc
    /\ UNCHANGED mvars

ServeHeld(q, i, recycles) == ServeHeldWithin(MaxOps, q, i, recycles)

\* The caller calls Recycle(req) (lines 117-121) instead of serving the
\* handler it holds (it drops the latest one, if it holds any).
RecycleWithin(budget, q) ==
    /\ th[q].pc = "idle" /\ ops < budget
    /\ Reset(q, [Idle EXCEPT !.op = "recycle",
                            !.h = IF held[q] = <<>> THEN 0 ELSE held[q][Len(held[q])]],
             "idle")
    /\ held' = [held EXCEPT ![q] = IF @ = <<>> THEN @ ELSE SubSeq(@, 1, Len(@) - 1)]
    /\ ops' = ops + 1
    /\ UNCHANGED compareFunc
    /\ UNCHANGED mvars

Recycle(q) == RecycleWithin(MaxOps, q)

\* RouterFunc.ServeHTTP when Match returned nil: http.NotFound(w, req).
NotFound(q) ==
    /\ th[q].pc = "notfound"
    /\ th' = [th EXCEPT ![q] = Idle]
    /\ UNCHANGED <<req, cars, pool, held, att, ops, compareFunc>>
    /\ UNCHANGED mvars

SNext ==
    \E q \in Reqs :
        \/ \E r \in Tops, got \in 0..Len(cars) : Match(q, r, got)
        \/ \E r \in Tops, got \in 0..Len(cars) : ServeHTTP(q, r, got)
        \/ \E got \in 0..Len(cars) : NextRoute(q, got)
        \/ ReadLen(q)
        \/ Grow(q)
        \/ \E checked \in BOOLEAN : Bind(q, checked)
        \/ Wrap(q)
        \/ ResetUnmatched(q)
        \/ Restore(q)
        \/ \E recycles \in BOOLEAN : RunHandler(q, recycles)
        \/ Release(q)
        \/ \E i \in 1..Len(held[q]), recycles \in BOOLEAN : ServeHeld(q, i, recycles)
        \/ Recycle(q)
        \/ NotFound(q)

MIdle ==
    /\ regPath = <<>> /\ reqPath = <<>>
    /\ router = NoRouter /\ result = NoResult /\ mpc = "new"

\* The dispatch system.
Init == SInit /\ MIdle

Spec == Init /\ [][SNext]_vars

\* The matcher on its own (the dispatch system at rest).
InitMatch == SInitWith([q \in Reqs |-> 1]) /\ MInit

SpecMatch == InitMatch /\ [][MNext]_vars

(***************************************************************************)
(* Dispatches that do not overlap in time: a goroutine takes a step only   *)
(* while every other goroutine is at rest.                                 *)
(***************************************************************************)
OthersIdle(q) == \A q2 \in Reqs \ {q} : th[q2].pc = "idle"

\* The callers of the dispatch system, one call at a time.
SeqNext ==
    \E q \in Reqs :
        \/ \E r \in Tops, got \in 0..Len(cars) : OthersIdle(q) /\ Match(q, r, got)
        \/ \E r \in Tops, got \in 0..Len(cars) : OthersIdle(q) /\ ServeHTTP(q, r, got)
        \/ \E got \in 0..Len(cars) : OthersIdle(q) /\ NextRoute(q, got)
        \/ OthersIdle(q) /\ ReadLen(q)
        \/ OthersIdle(q) /\ Grow(q)
        \/ \E checked \in BOOLEAN : OthersIdle(q) /\ Bind(q, checked)
        \/ OthersIdle(q) /\ Wrap(q)
        \/ OthersIdle(q) /\ ResetUnmatched(q)
        \/ OthersIdle(q) /\ Restore(q)
        \/ \E recycles \in BOOLEAN : OthersIdle(q) /\ RunHandler(q, recycles)
        \/ OthersIdle(q) /\ Release(q)
        \/ \E i \in 1..Len(held[q]), recycles \in BOOLEAN :
              OthersIdle(q) /\ ServeHeld(q, i, recycles)
        \/ OthersIdle(q) /\ Recycle(q)
        \/ OthersIdle(q) /\ NotFound(q)

SpecSeq == Init /\ [][SeqNext]_vars

MaxTestOps == 8     \* top-level calls (Match, Recycle) in a run of SpecTest

\* Callers that test the dynamic route 1 with Match and release with
\* Recycle, one call at a time.
TestNext ==
    \E q \in Reqs :
        \/ \E got \in 0..Len(cars) : OthersIdle(q) /\ MatchWithin(MaxTestOps, q, 1, got)
        \/ OthersIdle(q) /\ ReadLen(q)
        \/ OthersIdle(q) /\ Grow(q)
        \/ \E checked \in BOOLEAN : OthersIdle(q) /\ Bind(q, checked)
        \/ OthersIdle(q) /\ Wrap(q)
        \/ OthersIdle(q) /\ ResetUnmatched(q)
        \/ OthersIdle(q) /\ Restore(q)
        \/ OthersIdle(q) /\ RecycleWithin(MaxTestOps, q)

SpecTest == Init /\ [][TestNext]_vars

\* The routers wrapped with ComparesPathWith, and the request paths asked of
\* them.
CmpTops == {5, 7}
CmpReqPaths == <<Str("/A/b"), Str("/A/c"), Str("/a/b"), Str("/a/c"), Str("/c")>>

InitCmp ==
    /\ \E pi \in [Reqs -> 1..Len(CmpReqPaths)] : SInitFrom(CmpReqPaths, pi)
    /\ MIdle

\* Callers that ask the wrapped routers with Match and release with
\* Recycle, one call at a time.
CmpNext ==
    \E q \in Reqs :
        \/ \E r \in CmpTops : OthersIdle(q) /\ MatchWithin(MaxOps, q, r, 0)
        \/ OthersIdle(q) /\ SetCompare(q)
        \/ \E got \in 0..Len(cars) : OthersIdle(q) /\ NextRoute(q, got)
        \/ OthersIdle(q) /\ ReadLen(q)
        \/ OthersIdle(q) /\ Grow(q)
        \/ \E checked \in BOOLEAN : OthersIdle(q) /\ Bind(q, checked)
        \/ OthersIdle(q) /\ Wrap(q)
        \/ OthersIdle(q) /\ ResetUnmatched(q)
        \/ OthersIdle(q) /\ Restore(q)
        \/ OthersIdle(q) /\ ResetCompare(q)
        \/ OthersIdle(q) /\ RecycleWithin(MaxOps, q)

SpecCmp == InitCmp /\ [][CmpNext]_vars

(***************************************************************************)
(* Properties.                                                             *)
(***************************************************************************)

\* A request as the host hands it over: nothing attached, nothing held.
Untouched(q) ==
    /\ req[q].Body = BodyV(q) /\ att[q] = <<>> /\ held[q] = <<>>

\* The Route that router r asks first.
FirstAsked(r) == TopOf(Call(<<[r |-> r, i |-> 0]>>)).r

\* C1: a Match that returns nil leaves the request's slot as it found it.
\* The step in which a Route returns nil (the failure path's last statement
\* for a dynamic route, the failed comparison for a static one) does not
\* change req.Body.
C1_NilMatchKeepsSlot ==
    [][\A q \in Reqs :
          LET dynamicNil == th[q].pc = "restore" /\ th[q].cont = "nomatch"
                            /\ th'[q] # th[q]
              staticFails(l) == /\ Leaf(l).static
                                /\ ~CallCompareFunc(Leaf(l).pattern, req[q].Path)
              staticNil  == \/ /\ th[q].pc = "match" /\ th'[q] # th[q]
                               /\ staticFails(TopOf(th[q]).r)
                            \/ /\ th[q].pc = "idle"
                               /\ \E r \in Tops :
                                    /\ staticFails(FirstAsked(r))
                                    /\ (Match(q, r, 0) \/ ServeHTTP(q, r, 0))
          IN  (dynamicNil \/ staticNil) => req'[q].Body = req[q].Body]_vars

\* What router r returns when it is asked on its own for path while
\* compareFunc is cf (h: the Route whose handler it is, 0 for nil), and the
\* compareFunc it leaves behind: a Route answers for itself, New returns
\* the answer of the first router in registration order that returns a
\* handler, ComparesPathWith asks its router under cmp and leaves the
\* default.
RECURSIVE FirstMatchFrom(_, _, _), FirstMatchLoop(_, _, _, _)
FirstMatchFrom(cf, r, path) ==
    IF Routers[r].t = "route"
    THEN [h  |-> IF RouteMatchWith(cf, Leaf(r), path, MakeParams(Leaf(r).num)).ok
                 THEN r ELSE 0,
          cf |-> cf]
    ELSE IF Routers[r].t = "cmp"
    THEN [h  |-> FirstMatchFrom(Routers[r].cmp, Routers[r].subs[1], path).h,
          cf |-> "caseSensitiveCompare"]
    ELSE FirstMatchLoop(cf, r, 1, path)

\* The routers of the New r from the j-th on.
FirstMatchLoop(cf, r, j, path) ==
    IF j > Len(Routers[r].subs) THEN [h |-> 0, cf |-> cf]
    ELSE LET x == FirstMatchFrom(cf, Routers[r].subs[j], path)
         IN  IF x.h # 0 THEN x ELSE FirstMatchLoop(x.cf, r, j + 1, path)

FirstMatch(r, path) == FirstMatchFrom(compareFunc, r, path).h

\* FirstMatch for the routers and request paths of the analysis.
FirstMatchTable ==
    [r \in RouterIds |->
        [path \in {ReqPaths[i] : i \in 1..Len(ReqPaths)} |-> FirstMatch(r, path)]]

\* C2: composite dispatch is first-match-wins in registration order.  The
\* result that ServeHTTP receives from Match on router r is the handler of
\* the first router that matches (nil iff none does), and while a New is at
\* its i-th router, none of its routers before i matches: a router after a
\* match is never asked.
C2_FirstMatchWins ==
    \A q \in Reqs :
        /\ th[q].pc \in {"handler", "notfound"}
             => th[q].found = FirstMatchTable[th[q].r][req[q].Path]
        /\ \A n \in 1..Len(th[q].stack) :
             LET f == th[q].stack[n]
             IN  \A j \in 1..(f.i - 1) :
                    FirstMatchTable[Routers[f.r].subs[j]][req[q].Path] = 0

\* C2 witness: New(New(2, 1), 1) asked for /a/b returned the handler of the
\* static route 2, and no carrier of route 1 was ever allocated.
C2_Witness ==
    \E q \in Reqs :
        /\ th[q].pc = "handler" /\ th[q].r = 4
        /\ req[q].Path = Str("/a/b") /\ th[q].found = 2
        /\ \A c \in 1..Len(cars) : cars[c].pool = 0

\* Every goroutine is at rest and every handler a Match returned has been
\* served or dropped with Recycle.
Quiescent == \A q \in Reqs : th[q].pc = "idle" /\ held[q] = <<>>

\* C3: exactly one release per draw.  No carrier is Put a second time while
\* it rests in its pool, and once every match attempt has been served or
\* recycled no carrier is outstanding.
C3_OneReleasePerDraw ==
    /\ \A c \in 1..Len(cars) : pool[c] <= 1
    /\ Quiescent => \A c \in 1..Len(cars) : cars[c].pool # 0 => pool[c] = 1

\* C4: exclusive carrier ownership.  When a request is about to restore its
\* slot from a pooled carrier it attached, the carrier still holds the value
\* that request saved at attach time.
C4_RestoresOwnValue ==
    \A q \in Reqs :
        (th[q].pc = "restore" /\ th[q].hasExp) => cars[th[q].p].rc = th[q].exp

\* C5: the carrier of a static route holds no per-request state.  For every
\* request with a static carrier in its slot, the value saved in the carrier
\* is the value this request had when it attached it.
C5_StaticCarrierPerRequest ==
    \A q \in Reqs :
        LET c == parameterized(req[q].Body)
            k == LastAtt(att[q], c)
        IN  (c # 0 /\ cars[c].pool = 0 /\ k # 0) => cars[c].rc = att[q][k].v

\* The step in which the serving or recycling of a handler matched for
\* request q finishes.
Served(q) ==
    /\ th'[q].pc = "idle"
    /\ \/ th[q].pc = "handler"
       \/ th[q].pc \in {"release", "restore"} /\ th[q].cont # "nomatch" /\ th[q].h # 0
       \/ th[q].pc = "idle" /\ Len(held'[q]) < Len(held[q])

\* C6: once a matched request has been served or recycled (and the caller
\* holds no other handler for it), its slot holds the original body again
\* and Pattern(req) is the empty string.
C6_ReleasedAfterServe ==
    [][\A q \in Reqs :
          (Served(q) /\ held'[q] = <<>>)
            => (req'[q].Body = BodyV(q) /\ Pattern(q)' = <<>>)]_vars

\* The matcher has answered for this pattern and path.
Case(pat, url) == mpc = "matched" /\ regPath = Str(pat) /\ reqPath = Str(url)

\* C7: /blog/:category/:post matches /blog/go/request-routers with
\* category = go and post = request-routers, and does not match /blog/go/,
\* /blog/go/request-routers/ or /blog/go/request-routers/comments.
C7_NamedTail ==
    /\ Case("/blog/:category/:post", "/blog/go/request-routers")
         => /\ result.ok
            /\ ByName(result.ps, Str("category")) = Str("go")
            /\ ByName(result.ps, Str("post")) = Str("request-routers")
    /\ Case("/blog/:category/:post", "/blog/go/") => ~result.ok
    /\ Case("/blog/:category/:post", "/blog/go/request-routers/") => ~result.ok
    /\ Case("/blog/:category/:post", "/blog/go/request-routers/comments") => ~result.ok

\* C8: /category/:cid/product/*rest matches /category/5/product/x/a/bc
\* with cid = 5 and rest = x/a/bc.
C8_CatchAllAsTested ==
    Case("/category/:cid/product/*rest", "/category/5/product/x/a/bc")
      => /\ result.ok /\ ~result.fault
         /\ ByName(result.ps, Str("cid")) = Str("5")
         /\ ByName(result.ps, Str("rest")) = Str("x/a/bc")

\* The registered pattern is one literal segment followed by a catch-all.
LiteralThenCatchAll ==
    /\ ~router.static /\ Len(router.segments) = 2
    /\ IndexAny(router.segments[1], Markers) = -1
    /\ Len(router.segments[1]) >= 2
    /\ At(router.segments[2], 1) = "*"

\* C9: a catch-all binds the whole remaining path verbatim and needs a
\* non-empty remainder.  /files/*filepath matches /files/ (filepath = /) and
\* /files/a/b (filepath = /a/b) and not /files; and for every accepted
\* pattern of a literal segment L followed by a catch-all, with or without
\* a trailing slash, a path matches iff it is L followed by a non-empty
\* remainder, which is bound as it stands.
C9_CatchAllVerbatim ==
    /\ Case("/files/*filepath", "/files/")
         => result.ok /\ ByName(result.ps, Str("filepath")) = Str("/")
    /\ Case("/files/*filepath", "/files/a/b")
         => result.ok /\ ByName(result.ps, Str("filepath")) = Str("/a/b")
    /\ Case("/files/*filepath", "/files") => ~result.ok
    /\ (mpc = "matched" /\ LiteralThenCatchAll)
         => LET lit == router.segments[1]
                n == Len(lit)
            IN  /\ ~result.fault
                /\ result.ok <=> (Len(reqPath) > n /\ SubSeq(reqPath, 1, n) = lit)
                /\ result.ok =>
                     result.ps.s = << [Key |-> SliceFrom(router.segments[2], 2),
                                       Value |-> SubSeq(reqPath, n + 1, Len(reqPath))] >>

\* C9 witness: a pattern with catch-all and trailing slash matched a path
\* that does not end in a slash.
C9_Witness ==
    /\ mpc = "matched" /\ LiteralThenCatchAll /\ router.ts /\ result.ok
    /\ reqPath[Len(reqPath)] # "/"
    /\ Len(result.ps.s[1].Value) > 1

\* C10: every pattern that Route accepts can be matched against every path
\* without a runtime fault.
C10_NoRuntimeFault == mpc = "matched" => ~result.fault

\* The request was matched by the registered route.
Matched == mpc = "matched" /\ result.ok /\ ~result.fault

\* C11 as stated: after a successful Match, Pattern(req) is exactly the
\* string that was passed to Route.
C11_PatternRoundTrip == Matched => MatchedPattern = regPath

\* C11 amended: after a successful Match, Pattern(req) is the registration
\* string with its leading slashes replaced by exactly one slash.
C11_PatternNormalized ==
    Matched =>
        \E k \in 0..Len(regPath) :
            /\ \A i \in 1..k : regPath[i] = "/"
            /\ k < Len(regPath) => regPath[k + 1] # "/"
            /\ MatchedPattern = <<"/">> \o SubSeq(regPath, k + 1, Len(regPath))

\* C11 witness: a pattern registered with several leading slashes matched.
C11_Witness ==
    /\ Matched /\ Len(regPath) >= 2 /\ regPath[1] = "/" /\ regPath[2] = "/"
    /\ ~router.static

\* C12: Recycle is idempotent.  Recycle(req) on a request whose matches have
\* all been served or recycled already changes nothing: not the slot of any
\* request, no carrier, no pool (nothing is Put), and it returns at once.
C12_RecycleIdempotent ==
    [][\A q \in Reqs :
          (held[q] = <<>> /\ Recycle(q))
            => (req' = req /\ cars' = cars /\ pool' = pool /\ th'[q].pc = "idle")]_vars

\* The registration string without its leading and trailing slashes.
Core(path) ==
    LET nz == {i \in 1..Len(path) : path[i] # "/"}
    IN  IF nz = {} THEN <<>>
        ELSE SubSeq(path, Min(nz), CHOOSE i \in nz : \A j \in nz : j <= i)

\* The marker at position i of t is the first character of its segment.
StartsSegment(t, i) == i = 1 \/ t[i - 1] = "/"

\* The malformed dynamic patterns: a marker that is not the first character
\* of its segment (a second marker in a segment is one), a marker with an
\* empty name, a catch-all segment that is not the last segment.
Malformed(path) ==
    LET t == Core(path)
        marks == {i \in 1..Len(t) : t[i] \in Markers}
    IN  \/ \E i \in marks : ~StartsSegment(t, i)
        \/ \E i \in marks : i = Len(t) \/ t[i + 1] = "/"
        \/ \E i \in marks : /\ t[i] = "*" /\ StartsSegment(t, i)
                              /\ \E j \in (i + 1)..Len(t) : t[j] = "/"

\* C13: Route panics at registration exactly for the malformed dynamic
\* patterns and accepts every other pattern; a pattern without ':' and '*'
\* is static and is not segmented.
C13_PanicsIffMalformed ==
    mpc # "new" =>
        /\ (mpc = "panicked") <=> Malformed(regPath)
        /\ (mpc = "panicked") <=> (router.panic # "")
        /\ (\A i \in 1..Len(regPath) : regPath[i] \notin Markers)
             => (router.static /\ router.segments = <<>>)
        /\ router.static => \A i \in 1..Len(regPath) : regPath[i] \notin Markers

\* C13 witness: a catch-all in front of another segment was refused.
C13_Witness ==
    /\ mpc = "panicked" /\ router.panic = "must be the last segment"
    /\ regPath = Str("*a/a")

\* A string with exactly one slash in place of its leading slashes.
OneLeadingSlash(path) ==
    LET nz == {i \in 1..Len(path) : path[i] # "/"}
    IN  IF nz = {} THEN <<"/">> ELSE <<"/">> \o SubSeq(path, Min(nz), Len(path))

\* A static route has answered a request.
StaticMatched == mpc = "matched" /\ router.static

\* C14 as stated: a static pattern matches a path iff the path, after
\* leading-slash normalization, equals the normalized pattern.
C14_StaticBothNormalized ==
    StaticMatched => (result.ok <=> OneLeadingSlash(reqPath) = OneLeadingSlash(regPath))

\* C14 amended: a static pattern matches a path iff the path as it stands
\* equals the normalized pattern; /users/hello matches /users/hello, not
\* /user/hello and not /users/hello/.
C14_StaticExact ==
    /\ StaticMatched => (result.ok <=> reqPath = OneLeadingSlash(regPath))
    /\ StaticMatched => (~result.fault /\ result.ps.s = <<>>)
    /\ Case("/users/hello", "/users/hello") => result.ok
    /\ Case("/users/hello", "/user/hello") => ~result.ok
    /\ Case("/users/hello", "/users/hello/") => ~result.ok

\* C14 witness: a static pattern registered without a leading slash matched
\* the path that equals its normalized form.
C14_Witness ==
    /\ StaticMatched /\ result.ok /\ regPath = Str("a/a") /\ reqPath = Str("/a/a")

\* The path is /a/X followed by tail, with no separator in X.
AroundX(path, tail) ==
    LET n == Len(path)
        m == Len(Str(tail))
    IN  /\ n >= 3 + m
        /\ SubSeq(path, 1, 3) = Str("/a/")
        /\ SubSeq(path, n - m + 1, n) = Str(tail)
        /\ \A i \in 4..(n - m) : path[i] # "/"

\* C15: /a/:b/c matches every /a/X/c with no separator in X and binds
\* b = X; it matches neither /a/c, nor /a/X/b, nor /a/X/c/.  A dynamic
\* pattern of literal and named segments that ends in a slash (such as
\* /users/:id/:bid/) matches only paths that end in a slash.
C15_NamedSegment ==
    /\ (mpc = "matched" /\ regPath = Str("/a/:b/c"))
         => /\ ~result.fault
            /\ AroundX(reqPath, "/c")
                 => /\ result.ok
                    /\ result.ps.s = << [Key |-> Str("b"),
                                         Value |-> SubSeq(reqPath, 4, Len(reqPath) - 2)] >>
            /\ reqPath = Str("/a/c") => ~result.ok
            /\ AroundX(reqPath, "/b") => ~result.ok
            /\ AroundX(reqPath, "/c/") => ~result.ok
    /\ Case("/users/:id/:bid/", "/users/a/b/")
         => /\ result.ok
            /\ ByName(result.ps, Str("id")) = Str("a")
            /\ ByName(result.ps, Str("bid")) = Str("b")
    /\ (mpc = "matched" /\ ~router.static /\ router.ts /\ result.ok
          /\ \A i \in 1..Len(regPath) : regPath[i] # "*")
         => reqPath[Len(reqPath)] = "/"

\* C15 witness: /a/:b/c matched /a/ac/c.
C15_Witness == Case("/a/:b/c", "/a/ac/c") /\ result.ok

\* C16: parameter capacity.  Every carrier resting in a pool has Parameters
\* of length 0 and every carrier of a dynamic route has at most as many
\* Parameters as its pattern has parameter segments, so that no match
\* attempt on a drawn carrier reslices past the capacity.
C16_WithinCapacity ==
    /\ \A c \in 1..Len(cars) :
          cars[c].pool # 0 =>
             /\ Len(cars[c].params.s) <= NumParams(cars[c].pattern)
             /\ pool[c] > 0 => cars[c].params.s = <<>>
    /\ \A q \in Reqs : th[q].pc # "panicked"

\* The registered pattern is one literal segment followed by one parameter
\* segment, named or catch-all.
LiteralThenParam ==
    /\ ~router.static /\ Len(router.segments) = 2
    /\ IndexAny(router.segments[1], Markers) = -1
    /\ Len(router.segments[1]) >= 2
    /\ At(router.segments[2], 1) \in Markers

\* C17: separator alignment.  /a/:b matches neither /abc nor /ab and
\* /files/*filepath does not match /filesX; for every accepted pattern of a
\* literal segment L followed by a parameter, a matched path has a '/'
\* right after L, where the capture starts.
C17_SeparatorAligned ==
    /\ Case("/a/:b", "/abc") => ~result.ok
    /\ Case("/a/:b", "/ab") => ~result.ok
    /\ Case("/files/*filepath", "/filesX") => ~result.ok
    /\ (mpc = "matched" /\ LiteralThenParam /\ result.ok)
         => LET n == Len(router.segments[1])
            IN  Len(reqPath) > n /\ reqPath[n + 1] = "/"

\* What a Match of the dynamic leaf r on path binds in a carrier fresh from
\* pool.New.
FreshParams(r, path) == RouteMatch(Leaf(r), path, MakeParams(Leaf(r).num)).ps

\* C18: no stale parameters through carrier reuse.  While the caller holds
\* the handler of a successful dynamic Match on request q and the slot of q
\* holds the carrier that this Match attached, Parameters(q) is exactly the
\* pairs the pattern binds on the path of q, in pattern order.
C18_NoStaleParams ==
    \A q \in Reqs :
        LET c == parameterized(req[q].Body)
        IN  (/\ th[q].pc = "idle" /\ held[q] # <<>>
             /\ c # 0 /\ cars[c].pool # 0 /\ LastAtt(att[q], c) # 0)
              => Parameters(q) = FreshParams(cars[c].pool, req[q].Path)

\* The ComparesPathWith calls in progress on a call stack: the positions of
\* the frames whose router is one.
CmpFrames(stack) == {n \in 1..Len(stack) : Routers[stack[n].r].t = "cmp"}

\* The cmp of the innermost ComparesPathWith call in progress on the stack.
InnermostCmp(stack) ==
    LET n == CHOOSE i \in CmpFrames(stack) : \A j \in CmpFrames(stack) : j <= i
    IN  Routers[stack[n].r].cmp

\* C19: when dispatches do not overlap, a Route that is asked while a
\* ComparesPathWith Match call is in progress on its call stack compares
\* with the cmp of the innermost such call, and whenever no ComparesPathWith
\* Match call is in progress compareFunc is the case-sensitive default.
C19_OverrideInEffect ==
    /\ \A q \in Reqs :
          (th[q].pc = "match" /\ CmpFrames(th[q].stack) # {})
            => compareFunc = InnermostCmp(th[q].stack)
    /\ (\A q \in Reqs : CmpFrames(th[q].stack) = {})
          => compareFunc = "caseSensitiveCompare"

\* The saved value reached from slot value v after at most n steps along
\* the carriers' saved values (carrier -> the value it saved at attach).
RECURSIVE Follow(_, _)
Follow(v, n) ==
    IF n = 0 \/ parameterized(v) = 0 THEN v
    ELSE Follow(cars[parameterized(v)].rc, n - 1)

\* C20: the chain of saved slot values is acyclic.  No carrier saves
\* itself, and from the slot of every request the saved values lead to a
\* value that is not a carrier within as many steps as there are carriers.
C20_SavedChainAcyclic ==
    /\ \A c \in 1..Len(cars) : cars[c].rc # CarV(c)
    /\ \A q \in Reqs : parameterized(Follow(req[q].Body, Len(cars))) = 0

====
